---- MODULE Spec2Model ----
(***************************************************************************)
(* The analytics cache / request de-duplication layer of ExpenseTracker:   *)
(*   src/src/app/api/financials/route.ts  (analytics GET, income POST)     *)
(*   src/src/app/api/goal/route.ts        (goal POST)                      *)
(* Node runs the handlers on one thread: a step of the model is the code   *)
(* that runs between two awaits.  Continuations of a settled promise are   *)
(* microtasks: they run, in the order the awaits were issued, before any   *)
(* other event (variable microtasks).                                      *)
(***************************************************************************)
EXTENDS Integers, Sequences, FiniteSets, TLC

(* ------------------------------ bounds --------------------------------- *)
\* number of HTTP requests that arrive in one run
MaxRequests == 3
\* number of income-update POSTs among them
MaxPosts == 1
\* number of clock ticks (of TickMinutes each) in one run
MaxTicks == 2

\* the largest maxRetries a call of retryWithExponentialBackoff is given
MaxRetriesBound == 5

(* -------------------------- program constants -------------------------- *)
\* financials/route.ts:24 and goal/route.ts:32, in minutes
CACHE_EXPIRATION_MS == 60
GOAL_CACHE_EXPIRATION_MS == 30
\* financials/route.ts:198: retryWithExponentialBackoff(generateAIContent, 5, ...)
maxRetries == 5
\* goal/route.ts:88
maxAttempts == 3
\* the two overall timeouts, in seconds (financials/route.ts:279 and :362)
GET_TIMEOUT == 60
POST_TIMEOUT == 15
\* minutes that pass in one tick of the clock: the shorter of the two
\* windows, so that entries are read at age 0, 30 and 60
TickMinutes == GOAL_CACHE_EXPIRATION_MS

Users == {"u1"}
\* total of the expenses of a user over the last 30 days (never changed here)
TotalExpenses == [u \in Users |-> 3000]

Max(a, b) == IF a >= b THEN a ELSE b

(* ------------------------ request bodies (JSON) ------------------------ *)
\* A JSON value of a request body: absent, a number, or a string given as
\* the tuple of its characters.
Undefined == [t |-> "undefined"]
Num(n) == [t |-> "number", n |-> n]
Str(s) == [t |-> "string", s |-> s]
\* a JavaScript number as a parse gives it: NaN, or the number v
NaN == [nan |-> TRUE, v |-> 0]
Number(n) == [nan |-> FALSE, v |-> n]
IsNaN(x) == x.nan

Digits == {"0", "1", "2", "3", "4", "5", "6", "7", "8", "9"}
DigitVal(c) ==
    CASE c = "0" -> 0 [] c = "1" -> 1 [] c = "2" -> 2 [] c = "3" -> 3
      [] c = "4" -> 4 [] c = "5" -> 5 [] c = "6" -> 6 [] c = "7" -> 7
      [] c = "8" -> 8 [] c = "9" -> 9

\* the value of the longest run of digits that starts s, and its length
RECURSIVE DigitRun(_, _, _)
DigitRun(s, i, acc) ==
    IF i <= Len(s) /\ s[i] \in Digits
        THEN DigitRun(s, i + 1, [v |-> acc.v * 10 + DigitVal(s[i]), n |-> acc.n + 1])
        ELSE acc

\* parseInt(s) / parseFloat(s) on a string without fraction or exponent:
\* an optional sign, then the longest run of digits; what follows is
\* ignored, and a string that starts with no digit gives NaN.
ParsePrefix(s) ==
    LET neg  == Len(s) >= 1 /\ s[1] = "-"
        from == IF neg THEN 2 ELSE 1
        run  == DigitRun(s, from, [v |-> 0, n |-> 0])
    IN  IF run.n = 0 THEN NaN
        ELSE IF neg THEN Number(0 - run.v) ELSE Number(run.v)

\* parseInt: as ParsePrefix, the digits stop at a "." as at any other
\* character.
parseInt(s) == ParsePrefix(s)

\* parseFloat on the strings of this model, none of which has a "." or an
\* exponent after its digits.
parseFloat(s) == ParsePrefix(s)

\* Number.prototype.toString / String.prototype.toString, for integers
RECURSIVE DigitsOf(_)
DigitsOf(n) ==
    LET d == CASE n % 10 = 0 -> "0" [] n % 10 = 1 -> "1" [] n % 10 = 2 -> "2"
               [] n % 10 = 3 -> "3" [] n % 10 = 4 -> "4" [] n % 10 = 5 -> "5"
               [] n % 10 = 6 -> "6" [] n % 10 = 7 -> "7" [] n % 10 = 8 -> "8"
               [] n % 10 = 9 -> "9"
    IN  IF n < 10 THEN <<d>> ELSE Append(DigitsOf(n \div 10), d)

toString(v) ==
    IF v.t = "string" THEN v.s
    ELSE IF v.n < 0 THEN <<"-">> \o DigitsOf(0 - v.n) ELSE DigitsOf(v.n)

\* JavaScript truthiness of a JSON value: !v is false for every number but
\* 0 and every string but "".
Truthy(v) ==
    CASE v.t = "undefined" -> FALSE
      [] v.t = "number"    -> v.n # 0
      [] v.t = "string"    -> v.s # <<>>

(* ------------------------------- state --------------------------------- *)
VARIABLES
    cache,               \* financials/route.ts:23, keyed by user
    requestsInProgress,  \* financials/route.ts:27, keyed by user: a computation
    goalCache,           \* goal/route.ts:31, keyed by <<user, goalAmount, timeframe>>
    goalRequestsInProgress, \* goal/route.ts:35, same keys: a computation
    incomes,             \* the income table: per user, the row findFirst returns
    requests,            \* the handler invocations, in arrival order
    computations,        \* the generateAnalyticsData / generateSavingsPlan calls
    microtasks,          \* requests whose awaited promise settled, in await order
    now,                 \* Date.now(), in minutes
    invalidated,         \* per user, the entries the income POST removed from cache
    rejected,            \* the requests answered with an error before they reached
                         \* the cache, the maps or the income table: their number
                         \* and the last of them
    retry,               \* one call of retryWithExponentialBackoff, looked at alone
    currentRequest       \* part_007:25 (the single-slot GET): the computation in
                         \* flight, 0 for null

vars == <<cache, requestsInProgress, goalCache, goalRequestsInProgress, incomes,
          requests, computations, microtasks, now, invalidated, rejected, retry, currentRequest>>

NoEntry == [absent |-> TRUE]
NoData == [absent |-> TRUE]
NoResp == [status |-> 0]

\* NextResponse.json(body, {status})
Response(status, success, data, warning) ==
    [status |-> status, success |-> success, data |-> data, warning |-> warning]
ErrorResponse(status) == Response(status, FALSE, NoData, FALSE)

\* the amounts a suggestedBudget holds are in tenths of the currency unit, so
\* that income * 0.5, income * 0.3 and income * 0.2 are exact
AllInsightFields == {"analysis", "recommendations", "concerns", "suggestedBudget"}

\* a fallback that splits the expenses instead of the income
FallbackInsightsOfExpenses(monthlyIncome, totalExpenses) ==
    [src |-> "fallback",
     fields |-> AllInsightFields,
     recommendations |-> 3,
     concerns |-> IF totalExpenses > monthlyIncome THEN 1 ELSE 0,
     suggestedBudget |-> [needs   |-> Max(0, totalExpenses * 5),
                          wants   |-> Max(0, totalExpenses * 3),
                          savings |-> Max(0, totalExpenses * 2)]]

\* the aiInsights of the catch block of generateAnalyticsData
FallbackInsights(monthlyIncome, totalExpenses) ==
    [src |-> "fallback",
     fields |-> AllInsightFields,
     recommendations |-> 3,
     concerns |-> IF totalExpenses > monthlyIncome THEN 1 ELSE 0,
     suggestedBudget |-> [needs   |-> Max(0, monthlyIncome * 5),
                          wants   |-> Max(0, monthlyIncome * 3),
                          savings |-> Max(0, monthlyIncome * 2)]]

\* what JSON.parse gives for a response of the model: the object as the
\* model wrote it, with the fields it chose to write (no check is made)
ParsedInsights(shape) ==
    [src |-> "ai",
     fields |-> IF shape = "valid" THEN AllInsightFields ELSE {"analysis"},
     recommendations |-> IF shape = "valid" THEN 3 ELSE 0,
     concerns |-> 0,
     suggestedBudget |-> [needs |-> 0, wants |-> 0, savings |-> 0]]

\* The income table keeps, per user, the row that
\* findFirst({orderBy: {createdAt: "desc"}}) returns: the one created last.
NoIncome == [has |-> FALSE, amount |-> 0]
IncomeRow(amount) == [has |-> TRUE, amount |-> amount]

\* the object generateAnalyticsData builds; cid is the identity of the object
\* (the computation that built it)
AnalyticsData(c, income, totalExpenses, aiInsights) ==
    [cid |-> c,
     currentIncome |-> income.amount,
     totalExpenses |-> totalExpenses,
     aiInsights |-> aiInsights,
     hasIncome |-> income.has]

(* ------------------- the Insight Generator (Gemini) -------------------- *)
\* One call of model.generateContent ends in one of these ways: a text that
\* parses as JSON (with or without the fields asked for), a text that does
\* not parse, or an error with its statusCode (0: none) and message.
AIError(statusCode, message) == [k |-> "error", statusCode |-> statusCode, message |-> message]
AIOutcomes ==
    { [k |-> "json", shape |-> "valid"],
      [k |-> "json", shape |-> "missing"],
      [k |-> "text"],
      AIError(0, "network"),
      AIError(500, "internal"),
      AIError(403, "forbidden"),
      AIError(403, "rate limit"),
      AIError(429, "busy") }

\* generateAIContent's catch block: the statusCode the error leaves with
\* (financials/route.ts:181-193).  A text that does not parse is thrown as a
\* plain Error("Invalid JSON response: ...").
ClassifiedStatus(o) ==
    IF o.k = "text" THEN 0
    ELSE IF o.message \in {"rate limit", "quota exceeded", "429"} THEN 429
    ELSE IF o.message \in {"timeout", "deadline exceeded"} THEN 408
    ELSE o.statusCode

\* a test that takes every 4xx status as final
NonRetryableAny4xx(statusCode) ==
    statusCode # 0 /\ statusCode >= 400 /\ statusCode < 500

\* retryWithExponentialBackoff's test for an error it does not retry
NonRetryable(statusCode) ==
    /\ statusCode # 0
    /\ statusCode >= 400
    /\ statusCode < 500
    /\ statusCode # 429
    /\ statusCode # 408

(* --------------------------- shared pieces ----------------------------- *)
\* A handler invocation.  Until a handler first touches the cache, the
\* in-progress map or the income table it has seen nothing of the shared
\* state, so its awaits up to there (session, body, findUnique, create) are
\* taken in the step that touches it.
\*   pc        "initiated" (awaiting the promise it created), "attached"
\*             (awaiting a promise found in the in-progress map), "done"
\*   lookups   prisma.user.findUnique calls made
\*   created   whether prisma.income.create stored a row
\*   joined    the computation it attached to (0: none)
\*   deadAtRead  the entries invalidated before its cache read
NewRequest(kind, u, args) ==
    [kind |-> kind, user |-> u, args |-> args, pc |-> "done",
     cachedData |-> NoEntry, awaiting |-> 0, resp |-> NoResp,
     lookups |-> 0, created |-> FALSE, joined |-> 0, deadAtRead |-> {}]

NoRequest == NewRequest("none", "none", Undefined)

\* the requests that have arrived
Arrived == Len(requests) + rejected.n

Responded(req, resp) == [req EXCEPT !.pc = "done", !.resp = resp]

\* a call of generateAnalyticsData / generateSavingsPlan together with the
\* promise its caller awaits (the Promise.race with the timeout, with the
\* .finally that unregisters it when `registered`).
\*   pc      where the call is: "reads" (the two prisma reads are out),
\*           "ai" (a generateContent call is out), "done" (settled)
\*   attempt the number of failed generateContent calls so far
\*   outcome of the call itself: "pending", "resolved" or "rejected"
\*   pstate  of the promise the callers await: "pending", "fulfilled",
\*           "rejected"
NewComputation(kind, u, key, timeout, registered, r) ==
    [kind |-> kind, user |-> u, key |-> key, pc |-> "reads",
     income |-> NoIncome, attempt |-> 0,
     outcome |-> "pending", value |-> NoData,
     timeout |-> timeout, registered |-> registered,
     pstate |-> "pending", waiters |-> <<r>>]

Running(c) == computations[c].pc # "done"
Idle == microtasks = <<>>

\* the handler returns NextResponse.json({ error }, { status })
Rejection(req, status) ==
    [n |-> rejected.n + 1, last |-> Responded(req, ErrorResponse(status))]

\* A JavaScript Map is a function on the keys it holds.
EmptyMap == [k \in {} |-> 0]
MapHas(map, key) == key \in DOMAIN map
MapSet(map, key, value) ==
    [k \in DOMAIN map \cup {key} |-> IF k = key THEN value ELSE map[k]]
MapDelete(map, key) == [k \in DOMAIN map \ {key} |-> map[k]]

\* cache.get(key): the entry, or undefined
\* a lookup that never finds the entry
CacheGetMiss(c, key) == NoEntry

CacheGet(c, key) == IF MapHas(c, key) THEN c[key] ELSE NoEntry

\* a POST that forgets to invalidate
CacheDeleteSkipped(c, key) == c

\* cache.delete(cacheKey)
CacheDelete(c, key) == MapDelete(c, key)

\* cache.set(key, { data, timestamp: Date.now() })
\* a write that does not stamp the entry with the time of the write
CacheSetAtEpoch(c, key, data) == MapSet(c, key, [data |-> data, timestamp |-> 0])

CacheSet(c, key, data) == MapSet(c, key, [data |-> data, timestamp |-> now])

\* a test that still takes an entry as fresh at the age of the window
IsFreshInclusive(entry, window) ==
    entry # NoEntry /\ now - entry.timestamp <= window

\* cachedData && Date.now() - cachedData.timestamp < CACHE_EXPIRATION_MS
IsFresh(entry, window) ==
    IF entry = NoEntry THEN FALSE ELSE now - entry.timestamp < window

\* a promise without the .finally: the key stays registered
SettlePromiseKeepsEntry(cs, c, pstate) ==
    IF cs[c].pstate # "pending"
    THEN /\ computations' = cs
         /\ UNCHANGED <<requestsInProgress, goalRequestsInProgress, microtasks>>
    ELSE /\ computations' = [cs EXCEPT ![c].pstate = pstate]
         /\ microtasks' = cs[c].waiters
         /\ UNCHANGED <<requestsInProgress, goalRequestsInProgress>>

\* The promise the callers of computation c await settles (if the timeout
\* has not settled it before): its .finally callback unregisters the key,
\* whatever is registered there, and the awaiting handlers are queued.
SettlePromise(cs, c, pstate) ==
    IF cs[c].pstate # "pending"
    THEN /\ computations' = cs
         /\ UNCHANGED <<requestsInProgress, goalRequestsInProgress, microtasks>>
    ELSE /\ computations' = [cs EXCEPT ![c].pstate = pstate]
         /\ microtasks' = cs[c].waiters
         /\ requestsInProgress' =
                IF cs[c].registered /\ cs[c].kind = "analytics"
                THEN MapDelete(requestsInProgress, cs[c].user)
                ELSE requestsInProgress
         /\ goalRequestsInProgress' =
                IF cs[c].registered /\ cs[c].kind = "goal"
                THEN MapDelete(goalRequestsInProgress, cs[c].key)
                ELSE goalRequestsInProgress

\* the call itself ends: it returns value, or throws
Resolved(c, value) ==
    [computations EXCEPT ![c].pc = "done", ![c].outcome = "resolved", ![c].value = value]
Rejected(c) ==
    [computations EXCEPT ![c].pc = "done", ![c].outcome = "rejected"]

(* ---------------------- generateAnalyticsData -------------------------- *)
\* financials/route.ts:95-117: prisma.income.findFirst and
\* prisma.expense.findMany answer, or one of them fails and the call throws;
\* the first generateContent call is issued
ReadFinancials(c, ok) ==
    /\ Idle
    /\ c \in DOMAIN computations
    /\ computations[c].pc = "reads"
    /\ IF ok
       THEN /\ computations' = [computations EXCEPT
                    ![c].pc = "ai",
                    ![c].income = incomes[computations[c].user]]
            /\ UNCHANGED <<requestsInProgress, goalRequestsInProgress, microtasks>>
       ELSE SettlePromise(Rejected(c), c, "rejected")
    /\ UNCHANGED <<cache, goalCache, incomes, requests, now, invalidated, rejected, retry, currentRequest>>

\* a loop that allows one attempt more than maxRetries
RetryStepOneMore(o, attempt, max) ==
    IF o.k = "json" THEN "return"
    ELSE IF NonRetryable(ClassifiedStatus(o)) THEN "throw"
    ELSE IF attempt < max THEN "retry"
    ELSE "throw"

\* what retryWithExponentialBackoff does with the outcome o of the call it
\* made as attempt number `attempt` (0-based): "return", "retry" (wait, then
\* call again) or "throw"
RetryStep(o, attempt, max) ==
    IF o.k = "json" THEN "return"
    ELSE IF NonRetryable(ClassifiedStatus(o)) THEN "throw"
    ELSE IF attempt < max - 1 THEN "retry"
    ELSE "throw"

\* financials/route.ts:160-216: the aiInsights the computation ends with
InsightsOf(o, income, totalExpenses) ==
    IF o.k = "json" THEN ParsedInsights(o.shape)
    ELSE FallbackInsights(income.amount, totalExpenses)

\* the outcome retryWithExponentialBackoff(generateAIContent, 5, ...) can end
\* with: a call that returned, a call whose error is not retried, or the
\* error of the call made as the last attempt
FinalOutcome(o) ==
    \E attempt \in 0..(maxRetries - 1) : RetryStep(o, attempt, maxRetries) # "retry"

\* financials/route.ts:160-231: the retry-wrapped generateContent calls of
\* computation c end with outcome o (the calls and the waits between them
\* touch nothing the handlers share, they are one step); the computation
\* builds its data, stores it in the cache and returns.
GenerateAIContent(c, o) ==
    /\ Idle
    /\ c \in DOMAIN computations
    /\ computations[c].kind = "analytics"
    /\ computations[c].pc = "ai"
    /\ FinalOutcome(o)
    /\ LET comp == computations[c]
           data == AnalyticsData(c, comp.income, TotalExpenses[comp.user],
                                 InsightsOf(o, comp.income, TotalExpenses[comp.user]))
       IN  /\ cache' = CacheSet(cache, comp.user, data)
           /\ SettlePromise(Resolved(c, data), c, "fulfilled")
    /\ UNCHANGED <<goalCache, incomes, requests, now, invalidated, rejected, retry, currentRequest>>

\* a timer that is set but races with nothing: it fires and nobody hears
TimeoutUnraced(c) ==
    /\ Idle
    /\ c \in DOMAIN computations
    /\ computations[c].timeout # 0
    /\ computations[c].pstate = "pending"
    /\ computations' = [computations EXCEPT ![c].timeout = 0]
    /\ UNCHANGED <<cache, requestsInProgress, goalCache, goalRequestsInProgress, incomes,
                   requests, microtasks, now, invalidated, rejected, retry, currentRequest>>

\* the setTimeout of the Promise.race fires (financials/route.ts:279, :362):
\* the awaited promise rejects, the computation goes on
Timeout(c) ==
    /\ Idle
    /\ c \in DOMAIN computations
    /\ computations[c].timeout # 0
    /\ computations[c].pstate = "pending"
    /\ SettlePromise(computations, c, "rejected")
    /\ UNCHANGED <<cache, goalCache, incomes, requests, now, invalidated, rejected, retry, currentRequest>>

(* ------------------- GET /api/financials (analytics) ------------------- *)
LookupResults == {"found", "missing", "throws"}

\* financials/route.ts:275-285: the request calls generateAnalyticsData,
\* wraps it in the race with the 60 s timeout and registers the promise
StartAnalytics(rs, rip, r) ==
    LET c == Len(computations) + 1
        u == rs[r].user
    IN  /\ computations' = Append(computations,
                NewComputation("analytics", u, <<>>, GET_TIMEOUT, TRUE, r))
        /\ requestsInProgress' = MapSet(rip, u, c)
        /\ requests' = [rs EXCEPT ![r].pc = "initiated", ![r].awaiting = c]

\* financials/route.ts:237-285: session (401 without), findUnique (404, or
\* 500 when it throws), then the cache is read, then the in-progress map,
\* then a computation is started
GET(u, authed, found) ==
    /\ Idle
    /\ Arrived < MaxRequests
    /\ LET r == Len(requests) + 1
           new == NewRequest("GET", u, Undefined)
           cachedData == CacheGet(cache, u)
           req == [new EXCEPT !.lookups = 1, !.cachedData = cachedData,
                              !.deadAtRead = invalidated[u]]
       IN  CASE ~authed ->
                    /\ rejected' = Rejection(new, 401)
                    /\ UNCHANGED <<requests, requestsInProgress, computations>>
             [] authed /\ found # "found" ->
                    /\ rejected' = Rejection([new EXCEPT !.lookups = 1],
                            IF found = "missing" THEN 404 ELSE 500)
                    /\ UNCHANGED <<requests, requestsInProgress, computations>>
             [] authed /\ found = "found" /\ IsFresh(cachedData, CACHE_EXPIRATION_MS) ->
                    /\ requests' = Append(requests,
                            Responded(req, Response(200, FALSE, cachedData.data, FALSE)))
                    /\ UNCHANGED <<rejected, requestsInProgress, computations>>
             [] authed /\ found = "found" /\ ~IsFresh(cachedData, CACHE_EXPIRATION_MS)
                       /\ MapHas(requestsInProgress, u) ->
                    /\ requests' = Append(requests,
                            [req EXCEPT !.pc = "attached",
                                        !.awaiting = requestsInProgress[u],
                                        !.joined = requestsInProgress[u]])
                    /\ computations' = [computations EXCEPT
                            ![requestsInProgress[u]].waiters = Append(@, r)]
                    /\ UNCHANGED <<rejected, requestsInProgress>>
             [] authed /\ found = "found" /\ ~IsFresh(cachedData, CACHE_EXPIRATION_MS)
                       /\ ~MapHas(requestsInProgress, u) ->
                    /\ StartAnalytics(Append(requests, req), requestsInProgress, r)
                    /\ UNCHANGED rejected
    /\ UNCHANGED <<cache, goalCache, goalRequestsInProgress, incomes, microtasks,
                   now, invalidated, retry, currentRequest>>

\* financials/route.ts:266-272 and :287-306: the promise request r awaits has
\* settled and r goes on
GETResume(r) ==
    /\ microtasks # <<>>
    /\ r = Head(microtasks)
    /\ requests[r].kind = "GET"
    /\ microtasks' = Tail(microtasks)
    /\ LET req == requests[r]
           p == computations[req.awaiting]
       IN  CASE p.pstate = "fulfilled" ->
                    /\ requests' = [requests EXCEPT
                            ![r] = Responded(req, Response(200, FALSE, p.value, FALSE))]
                    /\ UNCHANGED <<requestsInProgress, computations>>
             [] p.pstate = "rejected" /\ req.pc = "attached" ->
                    StartAnalytics(requests, MapDelete(requestsInProgress, req.user), r)
             [] p.pstate = "rejected" /\ req.pc = "initiated"
                                      /\ req.cachedData # NoEntry ->
                    /\ requests' = [requests EXCEPT
                            ![r] = Responded(req,
                                       Response(200, FALSE, req.cachedData.data, TRUE))]
                    /\ UNCHANGED <<requestsInProgress, computations>>
             [] p.pstate = "rejected" /\ req.pc = "initiated"
                                      /\ req.cachedData = NoEntry ->
                    /\ requests' = [requests EXCEPT
                            ![r] = Responded(req, ErrorResponse(500))]
                    /\ UNCHANGED <<requestsInProgress, computations>>
    /\ UNCHANGED <<cache, goalCache, goalRequestsInProgress, incomes, now, invalidated,
                   rejected, retry, currentRequest>>

(* ----------------- POST /api/financials (income update) ---------------- *)
IncomeBodies ==
    { Undefined, Num(0), Num(0 - 100), Num(5000),
      Str(<<"-", "1", "0", "0">>), Str(<<"a", "b">>) }

\* financials/route.ts:328: !monthlyIncome || isNaN(parseFloat(monthlyIncome))
InvalidIncome(monthlyIncome) ==
    \/ ~Truthy(monthlyIncome)
    \/ IsNaN(parseFloat(toString(monthlyIncome)))

\* financials/route.ts:319-366: session (401), body and validation (400),
\* findUnique (404 / 500), prisma.income.create (500 when it throws); then
\* the cache entry of the user is deleted and the refresh is started, raced
\* with the 15 s timeout and not registered
POST(u, authed, monthlyIncome, found, created) ==
    /\ Idle
    /\ Arrived < MaxRequests
    /\ Cardinality({r \in DOMAIN requests : requests[r].kind = "POST"}) < MaxPosts
    /\ LET r == Len(requests) + 1
           c == Len(computations) + 1
           new == NewRequest("POST", u, monthlyIncome)
           looked == [new EXCEPT !.lookups = 1]
           status == IF ~authed THEN 401
                     ELSE IF InvalidIncome(monthlyIncome) THEN 400
                     ELSE IF found = "missing" THEN 404
                     ELSE IF found = "throws" \/ ~created THEN 500
                     ELSE 200
       IN  IF status # 200
           THEN /\ rejected' = Rejection(
                        IF status = 401 THEN NewRequest("POST", u, Undefined)
                        ELSE IF status = 400 THEN new ELSE looked,
                        status)
                /\ UNCHANGED <<requests, incomes, cache, invalidated, computations>>
           ELSE /\ incomes' = [incomes EXCEPT
                        ![u] = IncomeRow(parseFloat(toString(monthlyIncome)).v)]
                /\ cache' = CacheDelete(cache, u)
                /\ invalidated' = [invalidated EXCEPT
                        ![u] = IF MapHas(cache, u) THEN @ \cup {cache[u]} ELSE @]
                /\ computations' = Append(computations,
                        NewComputation("analytics", u, <<>>, POST_TIMEOUT, FALSE, r))
                /\ requests' = Append(requests,
                        [looked EXCEPT !.created = TRUE, !.pc = "initiated",
                                       !.awaiting = c])
                /\ UNCHANGED rejected
    /\ UNCHANGED <<requestsInProgress, goalCache, goalRequestsInProgress, microtasks, now, retry, currentRequest>>

\* an income POST that reports the failure of its refresh as an error
RefreshResponseError(p) ==
    IF p.pstate = "fulfilled" THEN Response(200, TRUE, p.value, FALSE)
    ELSE ErrorResponse(500)

\* financials/route.ts:366-378: the answer once the refresh promise p settled
RefreshResponse(p) ==
    IF p.pstate = "fulfilled" THEN Response(200, TRUE, p.value, FALSE)
    ELSE Response(200, TRUE, NoData, TRUE)

\* financials/route.ts:366-378: the refresh promise has settled
POSTResume(r) ==
    /\ microtasks # <<>>
    /\ r = Head(microtasks)
    /\ requests[r].kind = "POST"
    /\ microtasks' = Tail(microtasks)
    /\ requests' = [requests EXCEPT
            ![r] = Responded(@, RefreshResponse(computations[requests[r].awaiting]))]
    /\ UNCHANGED <<cache, requestsInProgress, goalCache, goalRequestsInProgress,
                   incomes, computations, now, invalidated, rejected, retry, currentRequest>>

(* ---------------------- generateSavingsPlan ------------------------- *)
AllPlanFields == {"savingsPlan", "recommendations", "tips"}

\* what one generateContent call of the goal route can end with: a text that
\* parses as JSON and has the three fields, one that parses and lacks some,
\* one that does not parse, or an error (or no response)
GoalOutcomes ==
    { [k |-> "json", shape |-> "valid"],
      [k |-> "json", shape |-> "missing"],
      [k |-> "text"],
      AIError(500, "internal"),
      AIError(403, "forbidden") }

\* a structure check that lets every parsed response through
ValidPlanUnchecked(aiResponse) == TRUE

\* goal/route.ts:109-113: the structure check on the parsed response
ValidPlan(aiResponse) ==
    /\ "savingsPlan" \in aiResponse.fields
    /\ "recommendations" \in aiResponse.fields
    /\ "tips" \in aiResponse.fields

\* JSON.parse of the response text; monthly is in cents, 0 when the text of
\* the model is taken as it is
ParsedPlan(c, shape) ==
    [src |-> "ai", cid |-> c,
     fields |-> IF shape = "valid" THEN AllPlanFields ELSE {"savingsPlan"},
     goalAmount |-> 0, timeframe |-> 0, monthly |-> 0]

\* a toFixed that cuts the digits off instead of rounding
toFixed2Truncated(x, y) == (100 * x) \div y

\* (x / y).toFixed(2), in cents: the nearest hundredth, the larger one on a tie
toFixed2(x, y) == (2 * 100 * x + y) \div (2 * y)

\* goal/route.ts:226-238: the fallback response
FallbackPlan(parsedGoalAmount, parsedTimeframe) ==
    [src |-> "fallback", cid |-> 0,
     fields |-> AllPlanFields,
     goalAmount |-> parsedGoalAmount, timeframe |-> parsedTimeframe,
     monthly |-> toFixed2(parsedGoalAmount, parsedTimeframe)]

\* a test that lets the loop go one attempt further
LastAttemptLate(attempts) == attempts > maxAttempts

\* goal/route.ts:132 and :144: if (attempts >= maxAttempts) throw
LastAttempt(attempts) == attempts >= maxAttempts

\* goal/route.ts:90-151: a generateContent call of computation c ends with
\* outcome o.  A valid response is cached and returned; anything else counts
\* an attempt and, after maxAttempts of them, the call throws.
GenerateSavingsPlan(c, o) ==
    /\ Idle
    /\ c \in DOMAIN computations
    /\ computations[c].kind = "goal"
    /\ computations[c].pc = "ai"
    /\ LET comp == computations[c]
           aiResponse == ParsedPlan(c, o.shape)
           attempts == comp.attempt + 1
       IN  IF o.k = "json" /\ ValidPlan(aiResponse)
           THEN /\ goalCache' = CacheSet(goalCache, comp.key, aiResponse)
                /\ SettlePromise(Resolved(c, aiResponse), c, "fulfilled")
           ELSE IF LastAttempt(attempts)
           THEN /\ SettlePromise([Rejected(c) EXCEPT ![c].attempt = attempts], c, "rejected")
                /\ UNCHANGED goalCache
           ELSE /\ computations' = [computations EXCEPT ![c].attempt = attempts]
                /\ UNCHANGED <<goalCache, requestsInProgress, goalRequestsInProgress,
                               microtasks>>
    /\ UNCHANGED <<cache, incomes, requests, now, invalidated, rejected, retry, currentRequest>>

(* ------------------------- POST /api/goal ------------------------------ *)
\* the bodies of the goal requests: the accepted values of each field with
\* every value of the other
ValidGoalAmounts == { Num(6000), Str(<<"5", "x">>) }
ValidTimeframes == { Num(12), Str(<<"8", ".", "5">>) }
GoalAmountBodies ==
    ValidGoalAmounts \cup { Undefined, Num(0), Num(0 - 5), Str(<<"a", "b">>) }
TimeframeBodies ==
    ValidTimeframes \cup { Undefined, Num(0), Num(0 - 1), Str(<<"a", "b">>) }
GoalBodies ==
    (GoalAmountBodies \X ValidTimeframes) \cup (ValidGoalAmounts \X TimeframeBodies)

\* goal/route.ts:167: the first test of the input
InvalidGoalInput(goalAmount, timeframe) ==
    \/ ~Truthy(goalAmount)
    \/ IsNaN(parseFloat(toString(goalAmount)))
    \/ ~Truthy(timeframe)
    \/ IsNaN(parseInt(toString(timeframe)))

\* goal/route.ts:177: the second test, on the parsed values
NotPositive(parsedGoalAmount, parsedTimeframe) ==
    parsedGoalAmount <= 0 \/ parsedTimeframe <= 0

\* goal/route.ts:211-217: the request calls generateSavingsPlan and registers
\* the promise (with its .finally)
StartGoal(rs, grip, r, key) ==
    LET c == Len(computations) + 1
    IN  /\ computations' = Append(computations,
                NewComputation("goal", key[1], key, 0, TRUE, r))
        /\ goalRequestsInProgress' = MapSet(grip, key, c)
        /\ requests' = [rs EXCEPT ![r].pc = "initiated", ![r].awaiting = c]

\* goal/route.ts:157-217: session (401), body, the two tests of the input
\* (400), findUnique (404, or 500 when it throws), then the cache is read,
\* then the in-progress map, then a computation is started
GoalPOST(u, authed, goalAmount, timeframe, found) ==
    /\ Idle
    /\ Arrived < MaxRequests
    /\ LET r == Len(requests) + 1
           body == [t |-> "object", goalAmount |-> goalAmount, timeframe |-> timeframe]
           new == NewRequest("GOAL", u, body)
           looked == [new EXCEPT !.lookups = 1]
           invalid == InvalidGoalInput(goalAmount, timeframe)
           parsedGoalAmount == parseFloat(toString(goalAmount)).v
           parsedTimeframe == parseInt(toString(timeframe)).v
           key == <<u, parsedGoalAmount, parsedTimeframe>>
           cachedPlan == CacheGet(goalCache, key)
           req == [looked EXCEPT !.cachedData = cachedPlan]
           validated == ~invalid /\ ~NotPositive(parsedGoalAmount, parsedTimeframe)
           status == IF ~authed THEN 401
                     ELSE IF ~validated THEN 400
                     ELSE IF found = "missing" THEN 404
                     ELSE IF found = "throws" THEN 500
                     ELSE 200
       IN  IF status # 200
           THEN /\ rejected' = Rejection(
                        IF ~authed THEN NewRequest("GOAL", u, Undefined)
                        ELSE IF validated THEN looked ELSE new,
                        status)
                /\ UNCHANGED <<requests, goalRequestsInProgress, computations>>
           ELSE IF IsFresh(cachedPlan, GOAL_CACHE_EXPIRATION_MS)
           THEN /\ requests' = Append(requests, Responded(req,
                        Response(200, FALSE, cachedPlan.data, FALSE)))
                /\ UNCHANGED <<rejected, goalRequestsInProgress, computations>>
           ELSE IF MapHas(goalRequestsInProgress, key)
           THEN /\ requests' = Append(requests,
                        [req EXCEPT !.pc = "attached",
                                    !.awaiting = goalRequestsInProgress[key],
                                    !.joined = goalRequestsInProgress[key]])
                /\ computations' = [computations EXCEPT
                        ![goalRequestsInProgress[key]].waiters = Append(@, r)]
                /\ UNCHANGED <<rejected, goalRequestsInProgress>>
           ELSE /\ StartGoal(Append(requests, req), goalRequestsInProgress, r, key)
                /\ UNCHANGED rejected
    /\ UNCHANGED <<cache, requestsInProgress, goalCache, incomes, microtasks, now,
                   invalidated, retry, currentRequest>>

\* goal/route.ts:203-208 and :219-239: the promise request r awaits has
\* settled and r goes on
GoalResume(r) ==
    /\ microtasks # <<>>
    /\ r = Head(microtasks)
    /\ requests[r].kind = "GOAL"
    /\ microtasks' = Tail(microtasks)
    /\ LET req == requests[r]
           p == computations[req.awaiting]
       IN  CASE p.pstate = "fulfilled" ->
                    /\ requests' = [requests EXCEPT
                            ![r] = Responded(req, Response(200, FALSE, p.value, FALSE))]
                    /\ UNCHANGED <<goalRequestsInProgress, computations>>
             [] p.pstate = "rejected" /\ req.pc = "attached" ->
                    StartGoal(requests, MapDelete(goalRequestsInProgress, p.key), r, p.key)
             [] p.pstate = "rejected" /\ req.pc = "initiated" ->
                    /\ requests' = [requests EXCEPT
                            ![r] = Responded(req, Response(200, FALSE,
                                       FallbackPlan(p.key[2], p.key[3]), FALSE))]
                    /\ UNCHANGED <<goalRequestsInProgress, computations>>
    /\ UNCHANGED <<cache, requestsInProgress, goalCache, incomes, now, invalidated,
                   rejected, retry, currentRequest>>

\* time passes
Tick ==
    /\ Idle
    /\ now < MaxTicks * TickMinutes
    /\ now' = now + TickMinutes
    /\ UNCHANGED <<cache, requestsInProgress, goalCache, goalRequestsInProgress,
                   incomes, requests, computations, microtasks, invalidated, rejected, retry, currentRequest>>

(* -------------------- retryWithExponentialBackoff ---------------------- *)
\* One call retryWithExponentialBackoff(operation, maxRetries, baseDelay,
\* factor, jitter), followed from its first invocation of the operation to
\* its return or throw.  Delays are in milliseconds where the code computes
\* them and in microseconds once the jitter is added, so that
\* Math.random() * jitterAmount stays a whole number.
RECURSIVE Pow(_, _)
Pow(b, e) == IF e = 0 THEN 1 ELSE b * Pow(b, e - 1)

\* a delay that grows by one factor too many
DelayFromNextAttempt(baseDelay, factor, attempt) == baseDelay * Pow(factor, attempt + 1)

\* financials/route.ts:68: baseDelay * Math.pow(factor, attempt)
Delay(baseDelay, factor, attempt) == baseDelay * Pow(factor, attempt)

\* the values of Math.random() looked at, in thousandths: the smallest, the
\* middle and the largest below 1
Randoms == {0, 500, 999}

\* financials/route.ts:71-74, in microseconds:
\* delay += Math.random() * jitterAmount - jitterAmount / 2, jitterAmount = delay * 0.3
Jittered(delay, jitter, random) ==
    LET jitterAmount == (delay * 3) \div 10
    IN  IF jitter THEN 1000 * delay + random * jitterAmount - 500 * jitterAmount
        ELSE 1000 * delay

\* the statusCode of the errors the operation throws (0: it has none)
RetryStatuses == {0, 399, 400, 403, 408, 429, 499, 500}
\* what one invocation of the operation, generateAIContent, ends with
OperationOutcomes ==
    { [k |-> "json", shape |-> "valid"], AIError(403, "rate limit") }
        \cup { AIError(st, "internal") : st \in RetryStatuses }

\* the status the Insight Generator gave the error of outcome o (0: none)
RawStatus(o) == IF o.k = "error" THEN o.statusCode ELSE 0

NoError == [statusCode |-> 0, call |-> 0]
\* the call as it starts: attempt = 0, nothing invoked, nothing waited
RetryCall(max, baseDelay, factor, jitter) ==
    [pc |-> "call", maxRetries |-> max, baseDelay |-> baseDelay, factor |-> factor,
     jitter |-> jitter, attempt |-> 0, calls |-> 0, delays |-> <<>>,
     lastError |-> NoError, thrown |-> NoError, raw |-> 0]
RetryCalls ==
    { RetryCall(max, 1000, factor, jitter) :
        max \in 1..MaxRetriesBound, factor \in {1, 2}, jitter \in BOOLEAN }

\* financials/route.ts:46-64 and :87: the operation is invoked as attempt
\* retry.attempt and ends with outcome o; the call returns, throws the error
\* (not retried, or the last attempt's), or goes on to wait
Operation(o) ==
    /\ retry.pc = "call"
    /\ LET error == [statusCode |-> ClassifiedStatus(o), call |-> retry.calls + 1]
           invoked == [retry EXCEPT !.calls = @ + 1]
           step == RetryStep(o, retry.attempt, retry.maxRetries)
       IN  retry' =
             CASE step = "return" -> [invoked EXCEPT !.pc = "returned"]
               [] step = "throw"  -> [invoked EXCEPT !.pc = "thrown",
                                                     !.lastError = error,
                                                     !.thrown = error,
                                                     !.raw = RawStatus(o)]
               [] step = "retry"  -> [invoked EXCEPT !.pc = "wait", !.lastError = error,
                                                     !.raw = RawStatus(o)]
    /\ UNCHANGED <<cache, requestsInProgress, goalCache, goalRequestsInProgress, incomes,
                   requests, computations, microtasks, now, invalidated, rejected, currentRequest>>

\* financials/route.ts:66-79 and the attempt++ of the loop: the delay is
\* computed, waited, and the next attempt begins
Backoff(random) ==
    /\ retry.pc = "wait"
    /\ retry' = [retry EXCEPT
            !.pc = "call",
            !.attempt = @ + 1,
            !.delays = Append(@,
                Jittered(Delay(retry.baseDelay, retry.factor, retry.attempt),
                         retry.jitter, random))]
    /\ UNCHANGED <<cache, requestsInProgress, goalCache, goalRequestsInProgress, incomes,
                   requests, computations, microtasks, now, invalidated, rejected, currentRequest>>

(* ------------------ the loop of generateSavingsPlan -------------------- *)
\* The while loop of one generateSavingsPlan call (goal/route.ts:87-154),
\* followed alone from its first generateContent call to its return or throw.
PlanLoop ==
    [pc |-> "generate", attempts |-> 0, calls |-> 0, delays |-> <<>>,
     lastError |-> NoError, thrown |-> NoError, raw |-> 0]

\* goal/route.ts:91-150: generateContent is called and ends with outcome o.
\* A valid plan is returned.  A response that does not parse or fails the
\* structure check is caught by the inner catch, which counts the attempt
\* and, on the last one, throws into the outer catch, which counts again and
\* throws; an error of the call is caught by the outer catch alone.
PlanCall(o) ==
    /\ retry.pc = "generate"
    /\ retry.attempts < maxAttempts
    /\ LET error == [statusCode |-> RawStatus(o), call |-> retry.calls + 1]
           called == [retry EXCEPT !.calls = @ + 1]
           failed == [called EXCEPT !.lastError = error, !.raw = RawStatus(o)]
           counted == retry.attempts + 1
       IN  retry' =
             IF o.k = "json" /\ ValidPlan(ParsedPlan(0, o.shape))
             THEN [called EXCEPT !.pc = "returned"]
             ELSE IF o.k # "error" /\ LastAttempt(counted)
             THEN [failed EXCEPT !.attempts = counted + 1,
                                 !.pc = IF LastAttempt(counted + 1) THEN "thrown" ELSE "sleep",
                                 !.thrown = IF LastAttempt(counted + 1) THEN error ELSE NoError]
             ELSE IF LastAttempt(counted)
             THEN [failed EXCEPT !.attempts = counted, !.pc = "thrown", !.thrown = error]
             ELSE [failed EXCEPT !.attempts = counted, !.pc = "sleep"]
    /\ UNCHANGED <<cache, requestsInProgress, goalCache, goalRequestsInProgress, incomes,
                   requests, computations, microtasks, now, invalidated, rejected, currentRequest>>

\* goal/route.ts:137, :149 and :90, :154: the wait of 1000 * 2^attempts ms,
\* then the loop test; a loop that ends without a throw ends in the throw of
\* a new Error after it
PlanSleep ==
    /\ retry.pc = "sleep"
    /\ retry' = [retry EXCEPT
            !.delays = Append(@, Delay(1000, 2, retry.attempts)),
            !.pc = IF retry.attempts < maxAttempts THEN "generate" ELSE "thrown"]
    /\ UNCHANGED <<cache, requestsInProgress, goalCache, goalRequestsInProgress, incomes,
                   requests, computations, microtasks, now, invalidated, rejected, currentRequest>>

(* ------------- the single-slot GET /api/financials (part_007) ---------- *)
\* The variant of the analytics route that keeps one module-level
\* currentRequest instead of a map keyed by user.  It serves every user of
\* the process; two are enough to tell them apart.
SlotUsers == {"u1", "u2"}
SlotExpenses == [u \in SlotUsers |-> 3000]
\* the rows the income table holds when the module is loaded
SlotIncomes == [u \in SlotUsers |-> IF u = "u1" THEN IncomeRow(5000) ELSE IncomeRow(1000)]

\* part_007:27-54: session (401), findUnique (404; when it throws, the catch
\* block sets currentRequest to null and answers 500), the cache check, then
\* the check of currentRequest; a request that finds neither goes on to
\* await prisma.income.findFirst and prisma.expense.findMany
SlotGET(u, authed, found) ==
    /\ Idle
    /\ Arrived < MaxRequests
    /\ LET r == Len(requests) + 1
           new == NewRequest("slotGET", u, Undefined)
           cachedData == CacheGet(cache, u)
           req == [new EXCEPT !.lookups = 1, !.cachedData = cachedData]
       IN  CASE ~authed ->
                    /\ rejected' = Rejection(new, 401)
                    /\ UNCHANGED <<requests, computations, currentRequest>>
             [] authed /\ found = "missing" ->
                    /\ rejected' = Rejection([new EXCEPT !.lookups = 1], 404)
                    /\ UNCHANGED <<requests, computations, currentRequest>>
             [] authed /\ found = "throws" ->
                    /\ rejected' = Rejection([new EXCEPT !.lookups = 1], 500)
                    /\ currentRequest' = 0
                    /\ UNCHANGED <<requests, computations>>
             [] authed /\ found = "found" /\ IsFresh(cachedData, CACHE_EXPIRATION_MS) ->
                    /\ requests' = Append(requests,
                            Responded(req, Response(200, FALSE, cachedData.data, FALSE)))
                    /\ UNCHANGED <<rejected, computations, currentRequest>>
             [] authed /\ found = "found" /\ ~IsFresh(cachedData, CACHE_EXPIRATION_MS)
                       /\ currentRequest # 0 ->
                    /\ requests' = Append(requests,
                            [req EXCEPT !.pc = "attached",
                                        !.awaiting = currentRequest,
                                        !.joined = currentRequest])
                    /\ computations' = [computations EXCEPT
                            ![currentRequest].waiters = Append(@, r)]
                    /\ UNCHANGED <<rejected, currentRequest>>
             [] authed /\ found = "found" /\ ~IsFresh(cachedData, CACHE_EXPIRATION_MS)
                       /\ currentRequest = 0 ->
                    /\ requests' = Append(requests, [req EXCEPT !.pc = "reads"])
                    /\ UNCHANGED <<rejected, computations, currentRequest>>
    /\ UNCHANGED <<cache, requestsInProgress, goalCache, goalRequestsInProgress, incomes,
                   microtasks, now, invalidated, retry>>

\* part_007:58-149: the two reads of request r answer; the request calls
\* model.generateContent, assigns the promise to currentRequest and returns
\* its continuation.  When a read throws, the catch block (l.151-158) sets
\* currentRequest to null and answers 500.
SlotReads(r, ok) ==
    /\ Idle
    /\ r \in DOMAIN requests
    /\ requests[r].kind = "slotGET"
    /\ requests[r].pc = "reads"
    /\ LET c == Len(computations) + 1
           u == requests[r].user
           started == NewComputation("slot", u, <<>>, 0, TRUE, r)
       IN  IF ok
           THEN /\ computations' = Append(computations,
                        [started EXCEPT !.pc = "ai", !.income = incomes[u]])
                /\ currentRequest' = c
                /\ requests' = [requests EXCEPT ![r].pc = "initiated", ![r].awaiting = c]
           ELSE /\ currentRequest' = 0
                /\ requests' = [requests EXCEPT ![r] = Responded(@, ErrorResponse(500))]
                /\ UNCHANGED computations
    /\ UNCHANGED <<cache, requestsInProgress, goalCache, goalRequestsInProgress, incomes,
                   microtasks, now, invalidated, rejected, retry>>

\* part_007:124-147: the generateContent call of computation c ends with
\* outcome o.  The .then callback parses the text, builds the data from the
\* income and expenses its request read, stores it under that request's
\* cache key and returns it; an error of the call or of JSON.parse rejects
\* the promise.  The .finally callback sets currentRequest to null, and the
\* continuations of the requests that hold the promise are queued.
SlotGenerate(c, o) ==
    /\ Idle
    /\ c \in DOMAIN computations
    /\ computations[c].kind = "slot"
    /\ computations[c].pc = "ai"
    /\ LET comp == computations[c]
           data == AnalyticsData(c, comp.income, SlotExpenses[comp.user],
                                 ParsedInsights(o.shape))
       IN  IF o.k = "json"
           THEN /\ cache' = CacheSet(cache, comp.user, data)
                /\ SettlePromise(Resolved(c, data), c, "fulfilled")
           ELSE /\ SettlePromise(Rejected(c), c, "rejected")
                /\ UNCHANGED cache
    /\ currentRequest' = 0
    /\ UNCHANGED <<goalCache, incomes, requests, now, invalidated, rejected, retry>>

\* part_007:53 and :149: the continuation of request r runs: the data of the
\* promise is the body of the answer; the rejection of the promise is the
\* rejection of the handler (the return is not awaited, the catch block does
\* not see it), which the framework answers with 500
SlotResume(r) ==
    /\ microtasks # <<>>
    /\ r = Head(microtasks)
    /\ requests[r].kind = "slotGET"
    /\ microtasks' = Tail(microtasks)
    /\ LET p == computations[requests[r].awaiting]
       IN  requests' = [requests EXCEPT ![r] = Responded(@,
                IF p.pstate = "fulfilled" THEN Response(200, FALSE, p.value, FALSE)
                ELSE ErrorResponse(500))]
    /\ UNCHANGED <<cache, requestsInProgress, goalCache, goalRequestsInProgress, incomes,
                   computations, now, invalidated, rejected, retry, currentRequest>>

\* part_007:162-209: the income POST of the variant: session (401), body
\* (400), findUnique (404 / 500), prisma.income.create (500 when it throws),
\* cache.delete of the user's key, { success: true }
SlotPOST(u, authed, monthlyIncome, found, created) ==
    /\ Idle
    /\ Arrived < MaxRequests
    /\ Cardinality({r \in DOMAIN requests : requests[r].kind = "slotPOST"}) < MaxPosts
    /\ LET new == NewRequest("slotPOST", u, monthlyIncome)
           looked == [new EXCEPT !.lookups = 1]
           status == IF ~authed THEN 401
                     ELSE IF InvalidIncome(monthlyIncome) THEN 400
                     ELSE IF found = "missing" THEN 404
                     ELSE IF found = "throws" \/ ~created THEN 500
                     ELSE 200
       IN  IF status # 200
           THEN /\ rejected' = Rejection(
                        IF status = 401 THEN NewRequest("slotPOST", u, Undefined)
                        ELSE IF status = 400 THEN new ELSE looked,
                        status)
                /\ UNCHANGED <<requests, incomes, cache, invalidated>>
           ELSE /\ incomes' = [incomes EXCEPT
                        ![u] = IncomeRow(parseFloat(toString(monthlyIncome)).v)]
                /\ cache' = CacheDelete(cache, u)
                /\ invalidated' = [invalidated EXCEPT
                        ![u] = IF MapHas(cache, u) THEN @ \cup {cache[u]} ELSE @]
                /\ requests' = Append(requests,
                        Responded([looked EXCEPT !.created = TRUE],
                                  Response(200, TRUE, NoData, FALSE)))
                /\ UNCHANGED rejected
    /\ UNCHANGED <<requestsInProgress, goalCache, goalRequestsInProgress, computations,
                   microtasks, now, retry, currentRequest>>

(* -------------------------- specifications ----------------------------- *)
\* no call of retryWithExponentialBackoff is looked at
NoRetry == [pc |-> "idle"]

\* the state after the modules are loaded: empty maps, no request
ModulesLoaded ==
    /\ cache = EmptyMap
    /\ requestsInProgress = EmptyMap
    /\ goalCache = EmptyMap
    /\ goalRequestsInProgress = EmptyMap
    /\ incomes = [u \in Users |-> NoIncome]
    /\ requests = <<>>
    /\ computations = <<>>
    /\ microtasks = <<>>
    /\ now = 0
    /\ invalidated = [u \in Users |-> {}]
    /\ rejected = [n |-> 0, last |-> NoRequest]
    /\ currentRequest = 0

Init == ModulesLoaded /\ retry = NoRetry

\* the analytics endpoint: GET and the income-update POST
Next ==
    \/ \E u \in Users, authed \in BOOLEAN, found \in LookupResults : GET(u, authed, found)
    \/ \E r \in 1..MaxRequests : GETResume(r)
    \/ \E u \in Users, authed \in BOOLEAN, b \in IncomeBodies,
          found \in LookupResults, created \in BOOLEAN : POST(u, authed, b, found, created)
    \/ \E r \in 1..MaxRequests : POSTResume(r)
    \/ \E c \in 1..MaxRequests, ok \in BOOLEAN : ReadFinancials(c, ok)
    \/ \E c \in 1..MaxRequests, o \in AIOutcomes : GenerateAIContent(c, o)
    \/ \E c \in 1..MaxRequests : Timeout(c)
    \/ Tick

Spec == Init /\ [][Next]_vars

\* the goal endpoint
NextGoal ==
    \/ \E u \in Users, authed \in BOOLEAN, b \in GoalBodies, found \in LookupResults :
            GoalPOST(u, authed, b[1], b[2], found)
    \/ \E r \in 1..MaxRequests : GoalResume(r)
    \/ \E c \in 1..MaxRequests, ok \in BOOLEAN : ReadFinancials(c, ok)
    \/ \E c \in 1..MaxRequests, o \in GoalOutcomes : GenerateSavingsPlan(c, o)
    \/ Tick

SpecGoal == Init /\ [][NextGoal]_vars

\* retryWithExponentialBackoff alone, called with each maxRetries, factor
\* and jitter setting
InitRetry == ModulesLoaded /\ retry \in RetryCalls

NextRetry ==
    \/ \E o \in OperationOutcomes : Operation(o)
    \/ \E random \in Randoms : Backoff(random)

SpecRetry == InitRetry /\ [][NextRetry]_vars

\* the read paths of both endpoints together: authenticated requests with
\* valid input of a user that exists
ReadGoalBodies == { <<Num(6000), Num(12)>>, <<Str(<<"5", "x">>), Str(<<"8", ".", "5">>)>> }

NextReads ==
    \/ \E u \in Users : GET(u, TRUE, "found")
    \/ \E r \in 1..MaxRequests : GETResume(r)
    \/ \E u \in Users, b \in ReadGoalBodies : GoalPOST(u, TRUE, b[1], b[2], "found")
    \/ \E r \in 1..MaxRequests : GoalResume(r)
    \/ \E c \in 1..MaxRequests, ok \in BOOLEAN : ReadFinancials(c, ok)
    \/ \E c \in 1..MaxRequests, o \in AIOutcomes : GenerateAIContent(c, o)
    \/ \E c \in 1..MaxRequests, o \in GoalOutcomes : GenerateSavingsPlan(c, o)
    \/ \E c \in 1..MaxRequests : Timeout(c)
    \/ Tick

SpecReads == Init /\ [][NextReads]_vars

\* the analytics GET under the scheduling the runtime gives: a timer that
\* is set fires, a persistence call returns, a handler whose awaited promise
\* settled goes on; the Insight Generator may never answer
NextLive ==
    \/ \E u \in Users : GET(u, TRUE, "found")
    \/ \E r \in 1..MaxRequests : GETResume(r)
    \/ \E c \in 1..MaxRequests, ok \in BOOLEAN : ReadFinancials(c, ok)
    \/ \E c \in 1..MaxRequests, o \in AIOutcomes : GenerateAIContent(c, o)
    \/ \E c \in 1..MaxRequests : Timeout(c)
    \/ Tick

Fairness ==
    /\ \A r \in 1..MaxRequests : WF_vars(GETResume(r))
    /\ \A c \in 1..MaxRequests : WF_vars(\E ok \in BOOLEAN : ReadFinancials(c, ok))
    /\ \A c \in 1..MaxRequests : WF_vars(Timeout(c))

SpecLive == Init /\ [][NextLive]_vars /\ Fairness

\* the goal POST under the scheduling the runtime gives: a persistence call
\* returns and a handler whose awaited promise settled goes on; the Insight
\* Generator may never answer, and goal/route.ts sets no timer
NextGoalLive ==
    \/ \E u \in Users, b \in ReadGoalBodies : GoalPOST(u, TRUE, b[1], b[2], "found")
    \/ \E r \in 1..MaxRequests : GoalResume(r)
    \/ \E c \in 1..MaxRequests, ok \in BOOLEAN : ReadFinancials(c, ok)
    \/ \E c \in 1..MaxRequests, o \in GoalOutcomes : GenerateSavingsPlan(c, o)
    \/ Tick

FairnessGoal ==
    /\ \A r \in 1..MaxRequests : WF_vars(GoalResume(r))
    /\ \A c \in 1..MaxRequests : WF_vars(\E ok \in BOOLEAN : ReadFinancials(c, ok))

SpecGoalLive == Init /\ [][NextGoalLive]_vars /\ FairnessGoal

\* the Insight Generator calls of one computation of either endpoint: the
\* retry call of generateAnalyticsData and the loop of generateSavingsPlan
InitCalls == ModulesLoaded /\ retry \in {RetryCall(maxRetries, 1000, 2, TRUE), PlanLoop}

NextCalls ==
    \/ \E o \in OperationOutcomes : Operation(o)
    \/ \E random \in Randoms : Backoff(random)
    \/ \E o \in GoalOutcomes : PlanCall(o)
    \/ PlanSleep

SpecCalls == InitCalls /\ [][NextCalls]_vars

\* the single-slot variant of the analytics route, serving two users
InitSlot ==
    /\ cache = EmptyMap
    /\ currentRequest = 0
    /\ requestsInProgress = EmptyMap
    /\ goalCache = EmptyMap
    /\ goalRequestsInProgress = EmptyMap
    /\ incomes = SlotIncomes
    /\ requests = <<>>
    /\ computations = <<>>
    /\ microtasks = <<>>
    /\ now = 0
    /\ invalidated = [u \in SlotUsers |-> {}]
    /\ rejected = [n |-> 0, last |-> NoRequest]
    /\ retry = NoRetry

NextSlot ==
    \/ \E u \in SlotUsers, authed \in BOOLEAN, found \in LookupResults : SlotGET(u, authed, found)
    \/ \E r \in 1..MaxRequests, ok \in BOOLEAN : SlotReads(r, ok)
    \/ \E c \in 1..MaxRequests, o \in AIOutcomes : SlotGenerate(c, o)
    \/ \E r \in 1..MaxRequests : SlotResume(r)
    \/ \E u \in SlotUsers, authed \in BOOLEAN, monthlyIncome \in IncomeBodies,
          found \in LookupResults, created \in BOOLEAN :
            SlotPOST(u, authed, monthlyIncome, found, created)
    \/ Tick

SpecSlot == InitSlot /\ [][NextSlot]_vars

(* ------------------------------ claims --------------------------------- *)
Reqs == DOMAIN requests
GETs == {r \in Reqs : requests[r].kind = "GET"}
POSTs == {r \in Reqs : requests[r].kind = "POST"}
GOALs == {r \in Reqs : requests[r].kind = "GOAL"}
Done(r) == requests[r].pc = "done"
Initiator(c) == computations[c].waiters[1]
\* the computations for the analytics of user u that have not settled
RunningFor(u) ==
    {c \in DOMAIN computations :
        Running(c) /\ computations[c].kind = "analytics" /\ computations[c].user = u}

\* C1: concurrent GETs for the same uncached key are served by one
\* computation: a GET that attached to the computation another GET started
\* never starts one of its own, whether that computation succeeds, fails or
\* times out, and it gets the answer the initiator gets.
C1_OneComputationForAll ==
    \A r \in GETs :
        requests[r].joined # 0 =>
            /\ requests[r].awaiting = requests[r].joined
            /\ LET i == Initiator(requests[r].joined)
               IN  Done(r) /\ Done(i) => requests[r].resp = requests[i].resp

\* C2: at most one computation per cache key has not settled, whatever GETs,
\* income POSTs, timeouts and failures came before.
C2_AtMostOneComputation ==
    \A u \in Users : Cardinality(RunningFor(u)) <= 1

\* C3: a GET that reads the cache after the income POST invalidated an entry
\* is not answered with the payload of that entry, also when the entry is
\* still within the expiration window.
C3_InvalidatedNotServed ==
    \A r \in GETs :
        Done(r) /\ requests[r].resp.status = 200 =>
            \A e \in requests[r].deadAtRead : requests[r].resp.data # e.data

\* a GET answered 200 after an entry that is still within the window was
\* invalidated before its cache read
C3_Witness ==
    \E r \in GETs :
        /\ Done(r) /\ requests[r].resp.status = 200
        /\ \E e \in requests[r].deadAtRead : now - e.timestamp < CACHE_EXPIRATION_MS

\* C4: a GET whose computation ended with the heuristic fallback (every
\* attempt of the Insight Generator failed) answers with that fallback only
\* when it found no previous cache entry; with a previous entry it answers
\* with that entry and a warning.
C4_FallbackOnlyWithoutPreviousEntry ==
    \A r \in GETs :
        /\ Done(r) /\ requests[r].resp.status = 200
        /\ requests[r].resp.data.cid = requests[r].awaiting
        /\ requests[r].resp.data.aiInsights.src = "fallback"
        => requests[r].cachedData = NoEntry

\* C5: a request that passed authentication and input validation is never
\* answered with an error status, whatever fails behind it.
C5_NoErrorStatus ==
    \A r \in GETs \cup GOALs : requests[r].resp.status \in {0, 200}

\* C6: a payload whose aiInsights are the fallback has all four fields, and
\* its suggestedBudget is 50% / 30% / 20% of the income of the payload, each
\* clamped at 0 (amounts of the budget in tenths); income 5000 gives 2500 /
\* 1500 / 1000.
C6_FallbackBudget ==
    \A r \in Reqs :
        LET d == requests[r].resp.data
        IN  /\ requests[r].resp.status = 200
            /\ d # NoData
            /\ d.aiInsights.src = "fallback"
            => LET b == d.aiInsights.suggestedBudget
                   income == Max(0, d.currentIncome)
               IN  /\ d.aiInsights.fields = AllInsightFields
                   /\ d.aiInsights.recommendations = 3
                   /\ 10 * b.needs = 50 * income
                   /\ 10 * b.wants = 30 * income
                   /\ 10 * b.savings = 20 * income
                   /\ d.currentIncome = 5000 =>
                        b = [needs |-> 25000, wants |-> 15000, savings |-> 10000]

\* a GET that found no cache entry is answered with the fallback for income 5000
C6_Witness ==
    \E r \in GETs :
        /\ Done(r) /\ requests[r].resp.status = 200
        /\ requests[r].cachedData = NoEntry
        /\ requests[r].resp.data.cid = requests[r].awaiting
        /\ requests[r].resp.data.aiInsights.src = "fallback"
        /\ requests[r].resp.data.currentIncome = 5000

\* C7: a goal POST whose computation rejected answers 200 with the fallback
\* plan: all three fields, and a monthly amount (in cents) that is
\* goalAmount / timeframe to the nearest cent, 500.00 for 6000 over 12; two
\* such answers for the same inputs are equal.
C7_FallbackPlan ==
    /\ \A r \in GOALs :
        /\ Done(r) /\ requests[r].awaiting # 0
        /\ computations[requests[r].awaiting].pstate = "rejected"
        =>  LET d == requests[r].resp.data
            IN  /\ requests[r].resp.status = 200
                /\ d.src = "fallback"
                /\ d.fields = AllPlanFields
                /\ d.goalAmount = parseFloat(toString(requests[r].args.goalAmount)).v
                /\ d.timeframe = parseInt(toString(requests[r].args.timeframe)).v
                /\ 2 * (d.monthly * d.timeframe - 100 * d.goalAmount) <= d.timeframe
                /\ 2 * (100 * d.goalAmount - d.monthly * d.timeframe) <= d.timeframe
                /\ (d.goalAmount = 6000 /\ d.timeframe = 12 => d.monthly = 50000)
    /\ \A r1, r2 \in GOALs :
        LET d1 == requests[r1].resp.data
            d2 == requests[r2].resp.data
        IN  /\ Done(r1) /\ Done(r2)
            /\ d1 # NoData /\ d2 # NoData
            /\ d1.src = "fallback" /\ d2.src = "fallback"
            /\ d1.goalAmount = d2.goalAmount /\ d1.timeframe = d2.timeframe
            => d1 = d2

\* a goal POST for 6000 over 12 months answered with the fallback plan, and
\* one for an amount the timeframe does not divide
C7_Witness ==
    /\ \E r \in GOALs :
        /\ Done(r) /\ requests[r].awaiting # 0
        /\ computations[requests[r].awaiting].pstate = "rejected"
        /\ requests[r].resp.data.goalAmount = 6000
        /\ requests[r].resp.data.timeframe = 12
    /\ \E r \in GOALs :
        /\ Done(r) /\ requests[r].awaiting # 0
        /\ computations[requests[r].awaiting].pstate = "rejected"
        /\ requests[r].resp.data.goalAmount = 5

\* a JSON value that is a positive number: a number above 0, or a text that
\* is the decimal notation of one, digits with at most one "." among them
PositiveNumber(v) ==
    CASE v.t = "undefined" -> FALSE
      [] v.t = "number"    -> v.n > 0
      [] v.t = "string"    ->
            LET int  == DigitRun(v.s, 1, [v |-> 0, n |-> 0])
                frac == DigitRun(v.s, int.n + 2, [v |-> 0, n |-> 0])
            IN  /\ int.n > 0
                /\ \/ int.n = Len(v.s) /\ int.v > 0
                   \/ /\ int.n < Len(v.s) /\ v.s[int.n + 1] = "."
                      /\ frac.n > 0 /\ int.n + 1 + frac.n = Len(v.s)
                      /\ int.v + frac.v > 0

\* C8: an income POST whose monthlyIncome is missing or not a positive number
\* is answered 400 and creates no income record: every record created comes
\* from a positive monthlyIncome.
C8_RejectsNonPositive ==
    \A r \in POSTs : requests[r].created => PositiveNumber(requests[r].args)

\* C9: a goal POST whose goalAmount or timeframe is missing, non-numeric,
\* zero or negative is answered 400 before anything else is done: a request
\* that got as far as the user lookup has two positive numbers, and one
\* answered 400 made no lookup, read no cache and awaits no computation.
C9_ValidatedFirst ==
    /\ \A r \in GOALs :
        /\ PositiveNumber(requests[r].args.goalAmount)
        /\ PositiveNumber(requests[r].args.timeframe)
    /\ LET q == rejected.last
       IN  /\ q.kind = "GOAL" /\ q.lookups > 0 =>
                /\ PositiveNumber(q.args.goalAmount)
                /\ PositiveNumber(q.args.timeframe)
           /\ q.kind = "GOAL" /\ q.resp.status = 400 =>
                /\ ~(PositiveNumber(q.args.goalAmount) /\ PositiveNumber(q.args.timeframe))
                /\ q.lookups = 0
                /\ q.cachedData = NoEntry
                /\ q.awaiting = 0

\* C10: an income POST that created its record answers success: true,
\* with the analytics of its refresh when the refresh promise fulfilled and
\* with a warning and no analytics when it rejected (timeout or failure);
\* and the step that creates the record leaves no cache entry for the user
\* and the refresh computation at its start.
C10_Answer ==
    \A r \in POSTs :
        requests[r].created /\ Done(r) =>
            LET p == computations[requests[r].awaiting]
                a == requests[r].resp
            IN  /\ a.status = 200 /\ a.success
                /\ p.pstate = "fulfilled" => a.data = p.value /\ ~a.warning
                /\ p.pstate = "rejected" => a.data = NoData /\ a.warning

C10_InvalidateThenRefresh ==
    \A r \in DOMAIN requests' :
        r \notin DOMAIN requests /\ requests'[r].kind = "POST" =>
            LET c == requests'[r].awaiting
            IN  /\ requests'[r].created
                /\ ~MapHas(cache', requests'[r].user)
                /\ c \notin DOMAIN computations
                /\ computations'[c].pc = "reads"

C10_IncomeSavedAnswersSuccess == [](C10_Answer) /\ [][C10_InvalidateThenRefresh]_vars

\* an income POST answered success with a warning after its refresh failed
C10_Witness ==
    \E r \in POSTs :
        /\ Done(r) /\ requests[r].created
        /\ requests[r].resp.success /\ requests[r].resp.warning

\* a status the Retry Controller is to take as permanent: a client error
\* other than 408 and 429
Permanent(statusCode) == statusCode \in 400..499 /\ statusCode \notin {408, 429}

\* C11: a call of retryWithExponentialBackoff that ends by throwing an error
\* that is not permanent has invoked the operation exactly maxRetries times,
\* has waited maxRetries - 1 times (between the attempts, never after the
\* last), and throws the error of the last invocation; it never invokes the
\* operation more than maxRetries times.
C11_ExhaustsThenThrowsLast ==
    /\ retry.calls <= retry.maxRetries
    /\ retry.pc = "wait" => retry.calls < retry.maxRetries
    /\ retry.pc \in {"thrown", "returned"} => Len(retry.delays) = retry.calls - 1
    /\ retry.pc = "thrown" /\ ~Permanent(retry.thrown.statusCode) =>
            /\ retry.calls = retry.maxRetries
            /\ Len(retry.delays) = retry.maxRetries - 1
            /\ retry.thrown = retry.lastError
            /\ retry.thrown.call = retry.maxRetries

\* a call with maxRetries 5 threw a 500 after five failed invocations
C11_Witness ==
    /\ retry.pc = "thrown" /\ retry.maxRetries = 5
    /\ retry.thrown = [statusCode |-> 500, call |-> 5]
    /\ Len(retry.delays) = 4

\* C12: an error is rethrown at once, with no further invocation and no
\* delay, exactly when its status is permanent (400 <= s < 500, not 408, not
\* 429): every error that was retried is not permanent, and a throw before
\* the attempts are used up is the throw of a permanent error.
C12_PermanentErrorsOnly ==
    /\ retry.pc = "thrown" /\ Permanent(retry.thrown.statusCode) =>
            /\ retry.thrown.call = retry.calls
            /\ Len(retry.delays) = retry.calls - 1
    /\ retry.pc = "thrown" /\ retry.calls < retry.maxRetries =>
            Permanent(retry.thrown.statusCode)
    /\ retry.pc = "wait" =>
            /\ ~Permanent(retry.lastError.statusCode)
            /\ retry.lastError.call = retry.calls
    /\ retry.pc = "call" /\ retry.calls > 0 => ~Permanent(retry.lastError.statusCode)

\* a 403 on the first attempt of five: one invocation, no delay
C12_Witness ==
    /\ retry.pc = "thrown" /\ retry.maxRetries = 5
    /\ retry.thrown = [statusCode |-> 403, call |-> 1]
    /\ retry.delays = <<>>

C13_EventuallyAnswered ==
    \A r \in 1..MaxRequests :
        (r \in DOMAIN requests) ~> (r \in DOMAIN requests /\ requests[r].pc = "done")

\* a GET was answered although the computation it awaited is still waiting
\* for the Insight Generator: the timeout rejected its promise and removed
\* the in-flight entry
C13_Witness ==
    \E r \in GETs :
        /\ Done(r) /\ requests[r].awaiting # 0
        /\ computations[requests[r].awaiting].pc = "ai"
        /\ computations[requests[r].awaiting].pstate = "rejected"
        /\ ~MapHas(requestsInProgress, requests[r].user)

\* the request that arrives in this step, if the step is the arrival of one
\* that got as far as the cache
Arriving == DOMAIN requests' \ DOMAIN requests
\* the cache entry for the key of request q, and the window of its endpoint
EntryFor(q) ==
    IF q.kind = "GOAL"
    THEN LET key == <<q.user, parseFloat(toString(q.args.goalAmount)).v,
                      parseInt(toString(q.args.timeframe)).v>>
         IN  IF key \in DOMAIN goalCache THEN goalCache[key] ELSE NoEntry
    ELSE IF q.user \in DOMAIN cache THEN cache[q.user] ELSE NoEntry
WindowFor(q) == IF q.kind = "GOAL" THEN 30 ELSE 60
FreshFor(q) == EntryFor(q) # NoEntry /\ now - EntryFor(q).timestamp < WindowFor(q)

\* C14: an analytics GET or goal POST that finds a fresh cache entry for its
\* key answers at once with exactly the cached value and does nothing else:
\* it starts no computation (no Insight Generator call, no persistence read
\* but the user lookup) and leaves both caches and both in-flight maps as
\* they were.
C14_HitStep ==
    \A r \in Arriving :
        LET q == requests'[r]
        IN  q.kind \in {"GET", "GOAL"} /\ FreshFor(q) =>
                /\ q.pc = "done"
                /\ q.resp = Response(200, FALSE, EntryFor(q).data, FALSE)
                /\ q.lookups = 1 /\ q.awaiting = 0
                /\ UNCHANGED <<cache, goalCache, requestsInProgress,
                               goalRequestsInProgress, computations, incomes,
                               microtasks>>

C14_FreshHitOnlyReturns == [][C14_HitStep]_vars

\* a GET was answered from an entry stored 30 minutes before
C14_Witness ==
    \E r \in GETs :
        /\ Done(r) /\ requests[r].awaiting = 0
        /\ requests[r].cachedData # NoEntry
        /\ requests[r].resp.data = requests[r].cachedData.data
        /\ now - requests[r].cachedData.timestamp = 30
        /\ cache[requests[r].user] = requests[r].cachedData

\* likewise a goal POST, from an entry stored in the same minute
C14_GoalHit ==
    \E r \in GOALs :
        /\ Done(r) /\ requests[r].awaiting = 0
        /\ requests[r].resp.data = requests[r].cachedData.data

\* C15: a request is served from the cache exactly when the entry for its
\* key has now - timestamp below the window of its endpoint (60 minutes for
\* analytics, 30 for goal plans): at age 0 it is served, at the age of the
\* window and beyond it is not; and a step in which time passes leaves both
\* caches as they are.
C15_ArrivalStep ==
    /\ \A r \in Arriving :
        LET q == requests'[r]
        IN  q.kind \in {"GET", "GOAL"} =>
                /\ (q.pc = "done") = FreshFor(q)
                /\ EntryFor(q) # NoEntry /\ now = EntryFor(q).timestamp => q.pc = "done"
                /\ EntryFor(q) # NoEntry /\ now - EntryFor(q).timestamp >= WindowFor(q) =>
                        q.pc \in {"initiated", "attached"}
    /\ now' # now => UNCHANGED <<cache, goalCache>>

C15_FreshWhileWithinWindow == [][C15_ArrivalStep]_vars

\* a goal POST found an entry of age 30, the window, and computes again
C15_Witness ==
    \E r \in GOALs :
        /\ requests[r].pc = "initiated"
        /\ requests[r].cachedData # NoEntry
        /\ now - requests[r].cachedData.timestamp = GOAL_CACHE_EXPIRATION_MS

\* C16: a caller that attached to a computation it did not start never
\* starts a computation itself, also when the one it attached to rejects.
C16_AttachedNeverInitiates ==
    \A r \in Reqs :
        requests[r].joined # 0 =>
            \A c \in DOMAIN computations : Initiator(c) # r

Range(seq) == { seq[i] : i \in DOMAIN seq }
Settled(c) == computations[c].pstate # "pending"

\* C17: the in-flight maps hold only promises that have not settled, and a
\* request that awaits a promise it found there awaits one that has not
\* settled or is about to go on with its outcome; a request that arrives
\* after the computation for its key settled attaches to nothing: it is
\* served from the cache or starts a computation of its own.
C17_NoSettledFuture ==
    /\ \A u \in DOMAIN requestsInProgress : ~Settled(requestsInProgress[u])
    /\ \A key \in DOMAIN goalRequestsInProgress : ~Settled(goalRequestsInProgress[key])
    /\ \A r \in Reqs :
        requests[r].pc = "attached" =>
            ~Settled(requests[r].awaiting) \/ r \in Range(microtasks)

C17_ArrivalStep ==
    \A r \in Arriving :
        LET q == requests'[r]
        IN  /\ q.pc = "attached" =>
                q.awaiting \in DOMAIN computations /\ ~Settled(q.awaiting)
            /\ q.pc = "initiated" => q.awaiting \notin DOMAIN computations
            /\ q.pc = "done" => FreshFor(q)

C17_EntryRemovedOnSettlement == [](C17_NoSettledFuture) /\ [][C17_ArrivalStep]_vars

\* a goal POST arrived after the computation for its key had failed and
\* awaits a second computation, which it started
C17_Witness ==
    \E r \in GOALs :
        /\ requests[r].pc = "initiated" /\ requests[r].joined = 0
        /\ \E c \in DOMAIN computations :
            /\ c < requests[r].awaiting
            /\ computations[c].key = computations[requests[r].awaiting].key
            /\ computations[c].pstate = "rejected"
            /\ computations[c].registered

\* C18: the analytics cache holds only payloads of computations whose
\* Insight Generator call succeeded: the heuristic fallback is never stored.
C18_NoFallbackInCache ==
    \A u \in DOMAIN cache : cache[u].data.aiInsights.src # "fallback"

\* C19: a response of the Insight Generator that parses as JSON but lacks a
\* required field is never returned to a caller and never stored in a cache:
\* every payload answered or cached that came from the Insight Generator has
\* all the fields.
C19_IncompleteNeverUsed ==
    /\ \A u \in DOMAIN cache :
        cache[u].data.aiInsights.src = "ai" =>
            cache[u].data.aiInsights.fields = AllInsightFields
    /\ \A r \in GETs \cup POSTs :
        requests[r].resp.status = 200 /\ requests[r].resp.data # NoData =>
            (requests[r].resp.data.aiInsights.src = "ai" =>
                requests[r].resp.data.aiInsights.fields = AllInsightFields)
    /\ \A key \in DOMAIN goalCache : goalCache[key].data.fields = AllPlanFields
    /\ \A r \in GOALs :
        requests[r].resp.status = 200 => requests[r].resp.data.fields = AllPlanFields

\* C21: a computation the overall timeout has abandoned does not write the
\* cache when it completes later: no cache entry holds the payload of a
\* computation whose awaited promise was rejected.
C21_AbandonedResultDiscarded ==
    \A u \in DOMAIN cache :
        computations[cache[u].data.cid].pstate # "rejected"

\* C27: an entry leaves the in-flight map, or is replaced there, only in a
\* step after which the computation it referred to has settled.
C27_RemovalStep ==
    \A u \in DOMAIN requestsInProgress :
        (u \notin DOMAIN requestsInProgress' \/ requestsInProgress'[u] # requestsInProgress[u])
            => computations'[requestsInProgress[u]].pstate # "pending"

C27_EntryRemovedOnlyWhenSettled == [][C27_RemovalStep]_vars

\* C30: a GET that answers with a stale payload and a warning answers with
\* the payload the cache holds for the user at that moment.
C30_DegradedStep ==
    \A r \in Reqs :
        /\ requests[r].kind = "GET" /\ ~Done(r)
        /\ requests'[r].pc = "done" /\ requests'[r].resp.warning
        => /\ MapHas(cache, requests[r].user)
           /\ cache[requests[r].user].data = requests'[r].resp.data

C30_DegradedEntryStillCached == [][C30_DegradedStep]_vars

\* the payload of entry e was computed from another income than the one the
\* user has now
PreUpdate(e, u) ==
    \/ e.data.currentIncome # incomes[u].amount
    \/ e.data.hasIncome # incomes[u].has

\* C23: a payload computed from the income of before an update can be in
\* the cache after the update; a GET that finds it is served it exactly
\* while less than 60 minutes have passed since it was written, every entry
\* carrying the time of its write; and a computation that starts reads the
\* income the user has then.
C23_Step ==
    /\ \A r \in Arriving :
        LET q == requests'[r]
        IN  /\ q.kind = "GET"
            /\ MapHas(cache, q.user)
            /\ PreUpdate(cache[q.user], q.user)
            => IF now - cache[q.user].timestamp < 60
               THEN q.pc = "done" /\ q.resp.data = cache[q.user].data
               ELSE q.pc \in {"initiated", "attached"} /\ q.awaiting # 0
    /\ \A u \in DOMAIN cache' :
        (~MapHas(cache, u) \/ cache[u] # cache'[u]) => cache'[u].timestamp = now
    /\ \A c \in DOMAIN computations :
        computations[c].pc = "reads" /\ computations'[c].pc = "ai" =>
            computations'[c].income = incomes[computations[c].user]

C23_StaleWriteBoundedByWindow == [][C23_Step]_vars

\* a GET was served from the cache a payload computed without income by a
\* computation that started before the POST that gave the user one
C23_Witness ==
    \E r \in GETs :
        /\ Done(r) /\ requests[r].awaiting = 0 /\ requests[r].resp.status = 200
        /\ ~requests[r].resp.data.hasIncome
        /\ incomes[requests[r].user].has
        /\ \E p \in POSTs : p < r /\ requests[r].resp.data.cid < requests[p].awaiting

\* C29: every value in the goal-plan cache is a response of the Insight
\* Generator that passed the structure check, stored under the key of the
\* computation that received it; the computed fallback is never cached, and
\* a goal POST answered with the fallback leaves no entry for its key behind
\* unless a later computation succeeded.
C29_GoalCacheHoldsValidPlans ==
    /\ \A key \in DOMAIN goalCache :
        LET d == goalCache[key].data
        IN  /\ d.src = "ai"
            /\ d.fields = AllPlanFields
            /\ d.cid \in DOMAIN computations
            /\ computations[d.cid].kind = "goal"
            /\ computations[d.cid].key = key
            /\ computations[d.cid].outcome = "resolved"
    /\ \A c \in DOMAIN computations :
        computations[c].kind = "goal" /\ computations[c].outcome = "rejected" =>
            \A key \in DOMAIN goalCache : goalCache[key].data.cid # c

\* after a goal POST was answered with the fallback, the next one for the
\* same key found no entry and awaits a computation of its own
C29_Witness ==
    \E r1, r2 \in GOALs :
        /\ r1 < r2
        /\ Done(r1) /\ requests[r1].resp.data.src = "fallback"
        /\ requests[r2].args = requests[r1].args
        /\ requests[r2].pc = "initiated" /\ requests[r2].joined = 0
        /\ requests[r2].cachedData = NoEntry
        /\ computations[requests[r2].awaiting].pc = "ai"

\* C25: every authenticated goal POST with valid input is answered in the
\* end, also when the Insight Generator never answers, and the in-flight
\* entries are removed in the end.
C25_GoalEventuallyAnswered ==
    /\ \A r \in 1..MaxRequests :
        (r \in DOMAIN requests) ~> (r \in DOMAIN requests /\ requests[r].pc = "done")
    /\ (goalRequestsInProgress # EmptyMap) ~> (goalRequestsInProgress = EmptyMap)

\* C22: an error to which the Insight Generator gave a permanent status (4xx
\* other than 408 and 429) is never retried, in neither endpoint and whatever
\* its message: no wait follows it.
C22_PermanentNeverRetried ==
    retry.pc \in {"wait", "sleep"} => ~Permanent(retry.raw)

IsPlanLoop == "attempts" \in DOMAIN retry

\* C28: one generateAnalyticsData call makes at most 5 calls of the Insight
\* Generator and one generateSavingsPlan call at most 3, whatever the calls
\* end with; a generateSavingsPlan call that throws has made exactly 3 and
\* throws the error of the third.
C28_CallsBounded ==
    IF IsPlanLoop
    THEN /\ retry.calls <= 3
         /\ retry.pc = "sleep" => retry.calls < 3
         /\ retry.pc = "thrown" =>
                /\ retry.calls = 3
                /\ retry.thrown = retry.lastError
                /\ retry.thrown.call = 3
    ELSE /\ retry.calls <= 5
         /\ retry.pc = "wait" => retry.calls < 5

\* a generateSavingsPlan call threw the 500 of its third generateContent call
C28_Witness ==
    /\ IsPlanLoop
    /\ retry.pc = "thrown" /\ retry.calls = 3
    /\ retry.thrown = [statusCode |-> 500, call |-> 3]
    /\ Len(retry.delays) = 2

\* C24: in the single-slot GET no two Insight Generator calls are in flight
\* at once: a request that saw no request in flight has registered its own
\* before another request can make the same check.
C24_OneCallInFlight ==
    \A c1, c2 \in DOMAIN computations :
        (computations[c1].kind = "slot" /\ computations[c2].kind = "slot"
            /\ Running(c1) /\ Running(c2)) => c1 = c2

\* C26: in the single-slot GET every payload answered to a user was built by
\* a computation started for that user, from that user's income.
C26_PayloadOfOwnUser ==
    \A r \in DOMAIN requests :
        (requests[r].kind = "slotGET" /\ requests[r].pc = "done"
            /\ requests[r].resp.status = 200) =>
            computations[requests[r].resp.data.cid].user = requests[r].user

====
